---- MODULE Spec2Model ----
(***************************************************************************)
(* Model of the D-Bus notification backend (DBusDesktopNotifier) of        *)
(* desktop-notifier: the lazy platform connection, the handle <->          *)
(* identifier bidict, the notification cache and the routing of the        *)
(* ActionInvoked / NotificationClosed signals to the registered callbacks. *)
(* Coroutines are interleaved at their await points only: every action is  *)
(* the code that runs between two suspension points of one coroutine.      *)
(* The blocking bridge (DesktopNotifierSync) is modelled with its threads  *)
(* interleaved at every read and write of the shared _event_loop.          *)
(*                                                                         *)
(*   Spec      the backend: operations, awaits and signals                 *)
(*   SpecCaps  get_capabilities over every server                          *)
(*   SpecSync  DesktopNotifierSync called from two threads                 *)
(***************************************************************************)
EXTENDS Integers, Sequences, FiniteSets, Bags, TLC

(* ------------------------------ bounds -------------------------------- *)

\* Number of send and get_capabilities operations issued during one run.
MaxCalls == 2

\* Number of coroutines suspended at an await at the same time.
MaxTasks == 2

\* Number of blocking calls issued on one DesktopNotifierSync instance.
MaxSyncCalls == 2

(* ------------------------- program constants -------------------------- *)

NOTIFICATION_CLOSED_EXPIRED == 1
NOTIFICATION_CLOSED_DISMISSED == 2
NOTIFICATION_CLOSED_PROGRAMMATICALLY == 3
NOTIFICATION_CLOSED_UNDEFINED == 4

CloseReasons ==
    { NOTIFICATION_CLOSED_EXPIRED, NOTIFICATION_CLOSED_DISMISSED,
      NOTIFICATION_CLOSED_PROGRAMMATICALLY, NOTIFICATION_CLOSED_UNDEFINED }

supported_hint_signatures == {"a{sv}", "a{ss}"}

\* The signatures a server may declare for the hints argument of Notify:
\* the two supported ones, an unexpected one, and "" (Notify has no 7th
\* argument: get_hints_signature catches the IndexError).
HintsSignatures == supported_hint_signatures \cup {"a{si}", ""}

\* The capability strings a server may list in its reply to GetCapabilities.
ServerCapabilities == {"actions", "body", "sound", "persistence"}

\* The threads that call one DesktopNotifierSync instance.
Threads == {1, 2}

(* --------------------------- notifications ---------------------------- *)

\* A callback is modelled by whether it is set (TRUE) or None (FALSE).
Button(id, pressed) == [identifier |-> id, on_pressed |-> pressed]

Notification(id, clicked, dismissed, btns) ==
    [identifier |-> id, on_clicked |-> clicked, on_dismissed |-> dismissed,
     buttons |-> btns]

\* The notifications the application sends. Identifiers and button
\* identifiers are chosen by the caller: "" and "default" are legal values.
Notifications ==
    { Notification("", TRUE, TRUE, << >>),
      Notification("a", TRUE, TRUE,
                   << Button("A", FALSE), Button("default", TRUE) >>),
      Notification("b", FALSE, FALSE,
                   << Button("A", TRUE), Button("B", TRUE) >>) }

Identifiers == { n.identifier : n \in Notifications }

NotificationOf(id) == CHOOSE n \in Notifications : n.identifier = id

\* The action keys a server may report in ActionInvoked.
ActionKeys == {"default", "A", "B", "other"}

(* ------------------------------- state -------------------------------- *)

VARIABLES
    hints_signature,             \* signature of Notify's hints argument (server)
    interface,                   \* self.interface: "None" or "ProxyInterface"
    bus_count,                   \* platform connections established
    handler_regs,                \* times the signal handlers were registered
    platform_nid_to_identifier,  \* the bidict: native handle -> identifier
    notification_cache,          \* identifier -> Notification
    next_nid,                    \* the handle the server assigns next
    tasks,                       \* bag of coroutines suspended at an await
    ncalls,                      \* send / get_capabilities operations issued so far
    nregistered,                 \* per identifier: sends that registered it
    fired,                       \* per identifier: callbacks invoked, in order
    outcome,                     \* what the last step reported: an exception
                                 \* raised, a signal ignored, or << >>
    returned,                    \* the values the last step returned: { } or
                                 \* { value }
    cps,                         \* the server's reply to GetCapabilities
    has_on_notification_closed,  \* the interface has the NotificationClosed signal
    _event_loop,                 \* DesktopNotifierSync._event_loop
    loops,                       \* per loop made by new_event_loop(): the
                                 \* thread inside its run_until_complete, or 0
    on_loop,                     \* the threads that execute on their own running loop
    threads,                     \* per thread inside _run_coro_sync: where it is
    scheduled,                   \* the loops operations were scheduled on
    nsync                        \* blocking calls issued so far

vars ==
    << hints_signature, interface, bus_count, handler_regs,
       platform_nid_to_identifier, notification_cache, next_nid, tasks,
       ncalls, nregistered, fired, outcome, returned, cps,
       has_on_notification_closed, _event_loop, loops, on_loop, threads,
       scheduled, nsync >>

server == << hints_signature, cps, has_on_notification_closed >>

bridge == << _event_loop, loops, on_loop, threads, scheduled, nsync >>

conn == << interface, bus_count, handler_regs >>

ghost == << nregistered, fired >>

backend ==
    << server, conn, platform_nid_to_identifier, notification_cache, next_nid,
       tasks, ncalls, ghost, outcome, returned >>

(* ------------------------------- bidict ------------------------------- *)

Range(m) == { m[k] : k \in DOMAIN m }

\* m.pop(k, default)
BidictPop(m, k, default) == IF k \in DOMAIN m THEN m[k] ELSE default

\* m after m.pop(k, ...)
BidictWithout(m, k) == [x \in DOMAIN m \ {k} |-> m[x]]

\* m.inverse[v]
BidictInverse(m, v) == CHOOSE k \in DOMAIN m : m[k] = v

\* m[k] = v raises ValueDuplicationError when v is the value of another key.
BidictPutRaises(m, k, v) == \E k2 \in DOMAIN m : k2 # k /\ m[k2] = v

\* m after m[k] = v (a duplicate key replaces its old item).
BidictPut(m, k, v) == [x \in DOMAIN m \cup {k} |-> IF x = k THEN v ELSE m[x]]

\* m.popitem(): the item inserted last; handles are assigned in increasing
\* order, so it is the item with the largest handle.
BidictPopitem(m) ==
    LET k == CHOOSE x \in DOMAIN m : \A y \in DOMAIN m : y <= x
    IN  << k, m[k] >>

(* ------------------------- notification cache ------------------------- *)

\* self._notification_cache[notification.identifier] = notification
CacheRegister(cache, n) ==
    [x \in DOMAIN cache \cup {n.identifier} |->
        IF x = n.identifier THEN n ELSE cache[x]]

\* self._notification_cache.pop(identifier, None): the cache afterwards
CacheEvict(cache, id) == [x \in DOMAIN cache \ {id} |-> cache[x]]

(* ------------------------------ helpers ------------------------------- *)

Task(op, arg, pc, nid) == [op |-> op, arg |-> arg, pc |-> pc, nid |-> nid]

Suspended == BagToSet(tasks)

Without(t) == tasks (-) SetToBag({t})

With(bag, t) == bag (+) SetToBag({t})

HasSlot == BagCardinality(tasks) < MaxTasks

\* The last step raised nothing and ignored nothing (and returned no value).
Quiet == outcome' = << >> /\ returned' = { }

\* The last step returned `value` to the caller of the operation.
Returns(value) == outcome' = << >> /\ returned' = { value }

\* The last step let the exception `name` out of `op`.
Raised(op, name) == outcome' = << op, name >> /\ returned' = { }

\* The last step was a signal handler that found no notification for a
\* handle this application had been assigned, and returned.
Ignored(op, nid) ==
    /\ outcome' = IF nid > 0 THEN << op, "ignored" >> ELSE << >>
    /\ returned' = { }

(* ------------------------------- Init --------------------------------- *)

\* Event loops are numbered: k > 0 is the k-th loop new_event_loop() made,
\* -th the loop thread th is running, and 0 is None, no loop.
None == 0

NewLoop(k) == k

RunningLoop(th) == 0 - th

\* A thread entering _run_coro_sync.
Entering == [pc |-> "test", loop |-> None, running |-> FALSE, on |-> None,
             failure |-> ""]

\* DesktopNotifierSync.__init__, and no thread inside a call.
InitBridge ==
    /\ _event_loop = None
    /\ loops = << >>
    /\ threads = << >>
    /\ scheduled = { }
    /\ nsync = 0

\* DBusDesktopNotifier.__init__
InitBackend ==
    /\ interface = "None"
    /\ bus_count = 0
    /\ handler_regs = 0
    /\ platform_nid_to_identifier = << >>
    /\ notification_cache = << >>
    /\ next_nid = 1
    /\ tasks = EmptyBag
    /\ ncalls = 0
    /\ nregistered = [id \in Identifiers |-> 0]
    /\ fired = [id \in Identifiers |-> << >>]
    /\ outcome = << >>
    /\ returned = { }

Init ==
    \* _send reads the signature only to choose between the early return
    \* and the Notify call, so one signature stands for the three that are
    \* not ""; SpecCaps, where the signature decides the result, has them all.
    /\ hints_signature \in {"a{sv}", ""}
    \* A server with the signals, whose handlers the actions below deliver to.
    /\ has_on_notification_closed = TRUE
    /\ cps = {"actions", "body"}
    /\ InitBackend
    /\ InitBridge
    /\ on_loop = { }

(* ---------------------- get_hints_signature --------------------------- *)

\* str(notify_method.in_args[6].signature), or "" on IndexError
get_hints_signature == hints_signature

(* ------------------- the base class (send / clear) -------------------- *)

\* send(): _send returned normally, the notification is retained.
base_send_ok(n) ==
    /\ notification_cache' = CacheRegister(notification_cache, n)
    /\ nregistered' = [nregistered EXCEPT ![n.identifier] = @ + 1]

\* send(): _send raised, nothing is retained.
base_send_failed ==
    UNCHANGED << notification_cache, nregistered >>

\* clear(): _clear returned normally, the notification is dropped.
base_clear_ok(id) ==
    notification_cache' = CacheEvict(notification_cache, id)

\* clear_all(): _clear_all returned normally, the cache is emptied.
base_clear_all_ok ==
    notification_cache' = << >>

(* ------------------------------- _send -------------------------------- *)

\* _send from the end of the lazy connection to its next await (or return);
\* `rest` is the bag of the other suspended coroutines.
send_body(rest, n) ==
    IF get_hints_signature = ""
    THEN \* "Notification server not supported": return without a Notify call
         /\ tasks' = rest
         /\ base_send_ok(n)
         /\ UNCHANGED << platform_nid_to_identifier, next_nid, fired >>
         /\ Quiet
    ELSE \* await self.interface.call_notify(...)
         /\ tasks' = With(rest, Task("_send", n.identifier, "notify", 0))
         /\ UNCHANGED << platform_nid_to_identifier, notification_cache,
                         next_nid, ghost >>
         /\ Quiet

\* send(notification) is called: runs to the first await.
SendCall(n) ==
    /\ ncalls < MaxCalls
    /\ HasSlot
    /\ ncalls' = ncalls + 1
    /\ UNCHANGED << bridge, server, conn >>
    /\ IF interface = "None"
       THEN \* self.interface = await self._init_dbus()
            /\ tasks' = With(tasks, Task("_send", n.identifier, "connect", 0))
            /\ UNCHANGED << platform_nid_to_identifier, notification_cache,
                            next_nid, ghost >>
            /\ Quiet
       ELSE send_body(tasks, n)

\* The replaces_id argument _send passes to Notify.
replaces_id == 0

\* The handle the server's Notify returns: a new one when replaces_id is 0,
\* otherwise the handle of the notification it replaced in place.
NotifyHandle(replaces) == IF replaces = 0 THEN next_nid ELSE replaces

\* call_notify returns the handle the server assigned.
NotifyReturn(t) ==
    /\ t \in Suspended
    /\ t.pc = "notify"
    /\ LET platform_nid == NotifyHandle(replaces_id)
           n == NotificationOf(t.arg)
       IN  /\ next_nid' = IF platform_nid = next_nid THEN next_nid + 1
                                                     ELSE next_nid
           /\ tasks' = Without(t)
           /\ IF BidictPutRaises(platform_nid_to_identifier, platform_nid,
                                 n.identifier)
              THEN /\ Raised("_send", "ValueDuplicationError")
                   /\ base_send_failed
                   /\ UNCHANGED << platform_nid_to_identifier, fired >>
              ELSE /\ Quiet
                   /\ platform_nid_to_identifier' =
                          BidictPut(platform_nid_to_identifier, platform_nid,
                                    n.identifier)
                   /\ base_send_ok(n)
                   /\ UNCHANGED fired
    /\ UNCHANGED << bridge, server, conn, ncalls >>

(* ----------------------------- _init_dbus ----------------------------- *)

\* MessageBus().connect() completes: a connection to the bus exists.
Connect(t) ==
    /\ t \in Suspended
    /\ t.pc = "connect"
    /\ bus_count' = bus_count + 1
    /\ tasks' = With(Without(t), [t EXCEPT !.pc = "introspect"])
    /\ UNCHANGED << bridge, server, interface, handler_regs,
                    platform_nid_to_identifier, notification_cache, next_nid,
                    ncalls, ghost >>
    /\ Quiet

\* bus.introspect() completes: the interface is built, the signal handlers are
\* registered, self.interface is assigned and the caller goes on.
Introspect(t) ==
    /\ t \in Suspended
    /\ t.pc = "introspect"
    /\ interface' = "ProxyInterface"
    \* if hasattr(self.interface, "on_notification_closed"): register
    /\ handler_regs' = IF has_on_notification_closed THEN handler_regs + 1
                                                     ELSE handler_regs
    /\ UNCHANGED << bridge, server, bus_count, ncalls >>
    /\ IF t.op = "_send"
       THEN send_body(Without(t), NotificationOf(t.arg))
       ELSE \* get_capabilities: await self.interface.call_get_capabilities()
            /\ tasks' = With(Without(t), [t EXCEPT !.pc = "get_caps"])
            /\ UNCHANGED << platform_nid_to_identifier, notification_cache,
                            next_nid, ghost >>
            /\ Quiet

(* -------------------------- get_capabilities -------------------------- *)

GetCapabilitiesCall ==
    /\ ncalls < MaxCalls
    /\ HasSlot
    /\ ncalls' = ncalls + 1
    /\ tasks' = With(tasks, Task("get_capabilities", "",
                                 IF interface = "None" THEN "connect"
                                                       ELSE "get_caps", 0))
    /\ UNCHANGED << bridge, server, conn, platform_nid_to_identifier,
                    notification_cache, next_nid, ghost >>
    /\ Quiet

\* capabilities.discard(c) for every c of `cs`
Discard(capabilities, cs) == capabilities \ cs

\* Mutant of get_capabilities: URGENCY is not discarded for a server with an
\* unexpected hints signature.
get_capabilities_KeepingUrgency(has_closed, reply, signature) ==
    LET base    == {"APP_NAME", "ICON", "TITLE", "TIMEOUT", "URGENCY"}
        closed  == IF has_closed THEN {"ON_CLICKED", "ON_DISMISSED"} ELSE { }
        buttons == IF "actions" \in reply THEN {"BUTTONS"} ELSE { }
        message == IF "body" \in reply THEN {"MESSAGE"} ELSE { }
        sound   == IF "sound" \in reply THEN {"SOUND", "SOUND_NAME"} ELSE { }
        capabilities == base \cup closed \cup buttons \cup message \cup sound
    IN  IF signature \notin supported_hint_signatures
        THEN Discard(capabilities, {"SOUND", "SOUND_NAME"})
        ELSE capabilities

\* The set get_capabilities builds: `has_closed` is hasattr(self.interface,
\* "on_notification_closed"), `reply` what call_get_capabilities returned and
\* `signature` what get_hints_signature returned.
get_capabilities(has_closed, reply, signature) ==
    LET base    == {"APP_NAME", "ICON", "TITLE", "TIMEOUT", "URGENCY"}
        closed  == IF has_closed THEN {"ON_CLICKED", "ON_DISMISSED"} ELSE { }
        buttons == IF "actions" \in reply THEN {"BUTTONS"} ELSE { }
        message == IF "body" \in reply THEN {"MESSAGE"} ELSE { }
        sound   == IF "sound" \in reply THEN {"SOUND", "SOUND_NAME"} ELSE { }
        capabilities == base \cup closed \cup buttons \cup message \cup sound
    IN  IF signature \notin supported_hint_signatures
        THEN Discard(capabilities, {"SOUND", "SOUND_NAME", "URGENCY"})
        ELSE capabilities

\* call_get_capabilities returns `cps`: the rest of get_capabilities runs and
\* the frozenset is returned.
GetCapabilitiesReturn(t) ==
    /\ t \in Suspended
    /\ t.pc = "get_caps"
    /\ tasks' = Without(t)
    /\ UNCHANGED << bridge, server, conn, platform_nid_to_identifier,
                    notification_cache, next_nid, ncalls, ghost >>
    /\ Returns(get_capabilities(has_on_notification_closed, cps,
                                get_hints_signature))

(* --------------------------- close requests -------------------------- *)

\* A Python int / the pair popitem() returns, as call arguments.
PyInt(v) == [type |-> "int", value |-> v]

PyTuple(k, v) == [type |-> "tuple", key |-> k, val |-> v]

\* The argument of CloseNotification is marshalled as a uint32: anything but
\* an int is rejected while the message is built, before anything is awaited.
IsHandle(x) == x.type = "int"

(* ------------------------------- _clear ------------------------------- *)

\* clear(identifier) is called: runs to the await of the close request.
ClearCall(id) ==
    /\ UNCHANGED << bridge, server, conn, next_nid, ncalls, ghost >>
    /\ IF interface = "None"
       THEN \* if not self.interface: return
            /\ base_clear_ok(id)
            /\ UNCHANGED << platform_nid_to_identifier, tasks >>
            /\ Quiet
       ELSE IF id \notin Range(platform_nid_to_identifier)
       THEN \* inverse.pop(identifier) has no default
            /\ Raised("_clear", "KeyError")
            /\ UNCHANGED << platform_nid_to_identifier, notification_cache,
                            tasks >>
       ELSE LET platform_nid == BidictInverse(platform_nid_to_identifier, id)
            IN  /\ HasSlot
                /\ platform_nid_to_identifier' =
                       BidictWithout(platform_nid_to_identifier, platform_nid)
                /\ IsHandle(PyInt(platform_nid))
                /\ tasks' = With(tasks, Task("_clear", id, "close", platform_nid))
                /\ UNCHANGED notification_cache
                /\ Quiet

(* ----------------------------- _clear_all ----------------------------- *)

\* The loop of _clear_all from its test to the next await (or the return):
\* popitem() returns the pair (handle, identifier), and the pair itself is
\* handed to call_close_notification.
clear_all_loop(rest) ==
    IF DOMAIN platform_nid_to_identifier = {}
    THEN /\ base_clear_all_ok
         /\ tasks' = rest
         /\ UNCHANGED platform_nid_to_identifier
         /\ Quiet
    ELSE LET item == BidictPopitem(platform_nid_to_identifier)
             nid == PyTuple(item[1], item[2])
         IN  /\ platform_nid_to_identifier' =
                    BidictWithout(platform_nid_to_identifier, item[1])
             /\ UNCHANGED notification_cache
             /\ IF IsHandle(nid)
                THEN /\ tasks' = With(rest, Task("_clear_all", "", "close",
                                                 nid.value))
                     /\ Quiet
                ELSE /\ tasks' = rest
                     /\ Raised("_clear_all", "SignatureBodyMismatchError")

\* clear_all() is called.
ClearAllCall ==
    /\ UNCHANGED << bridge, server, conn, next_nid, ncalls, ghost >>
    /\ IF interface = "None"
       THEN /\ base_clear_all_ok
            /\ UNCHANGED << platform_nid_to_identifier, tasks >>
            /\ Quiet
       ELSE clear_all_loop(tasks)

\* call_close_notification(...) returns to _clear or to _clear_all.
CloseReturn(t) ==
    /\ t \in Suspended
    /\ t.pc = "close"
    /\ UNCHANGED << bridge, server, conn, next_nid, ncalls, ghost >>
    /\ IF t.op = "_clear"
       THEN /\ tasks' = Without(t)
            /\ base_clear_ok(t.arg)
            /\ UNCHANGED platform_nid_to_identifier
            /\ Quiet
       ELSE clear_all_loop(Without(t))

(* ----------------------- failure and cancellation --------------------- *)

AwaitErrors == {"DBusError", "CancelledError"}

\* Mutant of AwaitRaises: _send enters the handle it expects into the bidict
\* before the reply to Notify arrives, so a failed Notify leaves the entry.
AwaitRaises_AfterEarlyRegistration(t, e) ==
    /\ t \in Suspended
    /\ tasks' = Without(t)
    /\ Raised(t.op, e)
    /\ base_send_failed
    /\ platform_nid_to_identifier' =
           IF t.pc = "notify"
           THEN BidictPut(platform_nid_to_identifier, next_nid, t.arg)
           ELSE platform_nid_to_identifier
    /\ UNCHANGED << bridge, server, conn, next_nid, ncalls, fired >>

\* The await a coroutine is suspended at raises: the platform call failed, or
\* the caller abandoned the operation. The exception leaves the operation.
AwaitRaises(t, e) ==
    /\ t \in Suspended
    /\ tasks' = Without(t)
    /\ Raised(t.op, e)
    /\ base_send_failed
    /\ UNCHANGED << bridge, server, conn, platform_nid_to_identifier, next_nid,
                    ncalls, fired >>

(* --------------------------- signal handlers -------------------------- *)

\* The handles a signal may carry: 0 stands for a handle of another
\* application (signals are broadcast), the others were assigned to us.
SignalNids == 0 .. (next_nid - 1)

Pressed(button) == "on_pressed:" \o button.identifier

Invoke(id, callback) == fired' = [fired EXCEPT ![id] = Append(@, callback)]

\* next(b for b in notification.buttons if b.identifier == action_key)
MatchingButtons(notification, action_key) ==
    { i \in 1 .. Len(notification.buttons) :
        notification.buttons[i].identifier = action_key }

\* Mutant of FirstMatch: the first button, whatever the key.
FirstMatch_IgnoringKey(notification, action_key) ==
    notification.buttons[1]

FirstMatch(notification, action_key) ==
    LET S == MatchingButtons(notification, action_key)
    IN  notification.buttons[CHOOSE i \in S : \A j \in S : i <= j]

\* _on_action(nid, action_key)
on_action(nid, action_key) ==
    LET identifier == BidictPop(platform_nid_to_identifier, nid, "")
    IN  /\ handler_regs > 0
        /\ platform_nid_to_identifier' =
               BidictWithout(platform_nid_to_identifier, nid)
        /\ notification_cache' = CacheEvict(notification_cache, identifier)
        /\ UNCHANGED << bridge, server, conn, next_nid, tasks, ncalls, nregistered >>
        /\ IF identifier \notin DOMAIN notification_cache
           THEN /\ Ignored("_on_action", nid)
                /\ UNCHANGED fired
           ELSE LET notification == notification_cache[identifier]
                IN  IF action_key = "default" /\ notification.on_clicked
                    THEN /\ Invoke(identifier, "on_clicked")
                         /\ Quiet
                    ELSE IF MatchingButtons(notification, action_key) = {}
                    THEN /\ Raised("_on_action", "StopIteration")
                         /\ UNCHANGED fired
                    ELSE LET button == FirstMatch(notification, action_key)
                         IN  /\ Quiet
                             /\ IF button.on_pressed
                                THEN Invoke(identifier, Pressed(button))
                                ELSE UNCHANGED fired

\* Mutant of on_closed: the handle and the notification are looked up (get)
\* instead of popped, so the notification stays tracked.
on_closed_WithoutPop(nid, reason) ==
    LET identifier == BidictPop(platform_nid_to_identifier, nid, "")
    IN  /\ handler_regs > 0
        /\ UNCHANGED << bridge, server, conn, next_nid, tasks, ncalls, nregistered,
                        platform_nid_to_identifier, notification_cache >>
        /\ IF identifier \notin DOMAIN notification_cache
           THEN /\ Ignored("_on_closed", nid)
                /\ UNCHANGED fired
           ELSE LET notification == notification_cache[identifier]
                IN  /\ Quiet
                    /\ IF reason = NOTIFICATION_CLOSED_DISMISSED
                          /\ notification.on_dismissed
                       THEN Invoke(identifier, "on_dismissed")
                       ELSE UNCHANGED fired

\* Mutant of on_closed: on_dismissed is invoked whatever the reason.
on_closed_AnyReason(nid, reason) ==
    LET identifier == BidictPop(platform_nid_to_identifier, nid, "")
    IN  /\ handler_regs > 0
        /\ platform_nid_to_identifier' =
               BidictWithout(platform_nid_to_identifier, nid)
        /\ notification_cache' = CacheEvict(notification_cache, identifier)
        /\ UNCHANGED << bridge, server, conn, next_nid, tasks, ncalls, nregistered >>
        /\ IF identifier \notin DOMAIN notification_cache
           THEN /\ Ignored("_on_closed", nid)
                /\ UNCHANGED fired
           ELSE LET notification == notification_cache[identifier]
                IN  /\ Quiet
                    /\ IF notification.on_dismissed
                       THEN Invoke(identifier, "on_dismissed")
                       ELSE UNCHANGED fired

\* _on_closed(nid, reason)
on_closed(nid, reason) ==
    LET identifier == BidictPop(platform_nid_to_identifier, nid, "")
    IN  /\ handler_regs > 0
        /\ platform_nid_to_identifier' =
               BidictWithout(platform_nid_to_identifier, nid)
        /\ notification_cache' = CacheEvict(notification_cache, identifier)
        /\ UNCHANGED << bridge, server, conn, next_nid, tasks, ncalls, nregistered >>
        /\ IF identifier \notin DOMAIN notification_cache
           THEN /\ Ignored("_on_closed", nid)
                /\ UNCHANGED fired
           ELSE LET notification == notification_cache[identifier]
                IN  /\ Quiet
                    /\ IF reason = NOTIFICATION_CLOSED_DISMISSED
                          /\ notification.on_dismissed
                       THEN Invoke(identifier, "on_dismissed")
                       ELSE UNCHANGED fired

(* ------------------------------- Next --------------------------------- *)

Next ==
    \/ \E nid \in SignalNids, action_key \in ActionKeys : on_action(nid, action_key)
    \/ \E nid \in SignalNids, reason \in CloseReasons : on_closed(nid, reason)
    \/ \E n \in Notifications : SendCall(n)
    \/ \E t \in Suspended : Connect(t)
    \/ \E t \in Suspended : Introspect(t)
    \/ \E t \in Suspended : NotifyReturn(t)
    \/ GetCapabilitiesCall
    \/ \E t \in Suspended : GetCapabilitiesReturn(t)
    \/ \E id \in Identifiers : ClearCall(id)
    \/ \E t \in Suspended : CloseReturn(t)
    \/ ClearAllCall
    \/ \E t \in Suspended, e \in AwaitErrors : AwaitRaises(t, e)

Spec == Init /\ [][Next]_vars

(* ------------------------- DesktopNotifierSync ------------------------ *)

\* The notification_limit the application passes to DesktopNotifierSync.
notification_limit == 1

\* The thread is outside _run_coro_sync: it made no call, its call returned,
\* or its call raised.
AtRest(th) ==
    IF th \in DOMAIN threads THEN threads[th].pc = "raised" ELSE TRUE

\* `threads` with thread th at `state`
At(th, state) ==
    [t \in DOMAIN threads \cup {th} |-> IF t = th THEN state ELSE threads[t]]

\* `threads` once the call of thread th has returned
Left(th) == [t \in DOMAIN threads \ {th} |-> threads[t]]

\* loop.is_running(): a thread is inside its run_until_complete; the loop a
\* thread was found running on is running.
is_running(loop) == IF loop < 0 THEN TRUE ELSE loops[loop] # 0

\* The loop can run the coroutines scheduled on it: the thread that runs it
\* is in the loop, not in a blocking call made from one of its callbacks.
Driven(loop) == IF loop < 0 THEN AtRest(0 - loop) ELSE loops[loop] # 0

\* A blocking method of DesktopNotifierSync is called in thread th: it builds
\* the coroutine and enters _run_coro_sync and _get_event_loop.
SyncCall(th) ==
    /\ AtRest(th)
    /\ nsync < MaxSyncCalls
    /\ nsync' = nsync + 1
    /\ threads' = At(th, Entering)
    /\ UNCHANGED << backend, _event_loop, loops, on_loop, scheduled >>

\* _get_event_loop: if self._event_loop is None
GetEventLoopTest(th) ==
    /\ th \in DOMAIN threads
    /\ threads[th].pc = "test"
    /\ threads' = [threads EXCEPT ![th].pc =
                      IF _event_loop = None THEN "bind" ELSE "return"]
    /\ UNCHANGED << backend, _event_loop, loops, on_loop, scheduled, nsync >>

\* _get_event_loop: self._event_loop = asyncio.get_running_loop(), or, on
\* RuntimeError, asyncio.new_event_loop()
GetEventLoopBind(th) ==
    /\ th \in DOMAIN threads
    /\ threads[th].pc = "bind"
    /\ IF th \in on_loop
       THEN /\ _event_loop' = RunningLoop(th)
            /\ UNCHANGED loops
       ELSE /\ _event_loop' = NewLoop(Len(loops) + 1)
            /\ loops' = Append(loops, 0)
    /\ threads' = [threads EXCEPT ![th].pc = "return"]
    /\ UNCHANGED << backend, on_loop, scheduled, nsync >>

\* _get_event_loop: return self._event_loop
GetEventLoopReturn(th) ==
    /\ th \in DOMAIN threads
    /\ threads[th].pc = "return"
    /\ threads' = [threads EXCEPT ![th].loop = _event_loop,
                                  ![th].pc = "is_running"]
    /\ UNCHANGED << backend, _event_loop, loops, on_loop, scheduled, nsync >>

\* _run_coro_sync: if self._get_event_loop().is_running()
IsRunning(th) ==
    /\ th \in DOMAIN threads
    /\ threads[th].pc = "is_running"
    /\ threads' = [threads EXCEPT ![th].running = is_running(threads[th].loop),
                                  ![th].pc = "submit"]
    /\ UNCHANGED << backend, _event_loop, loops, on_loop, scheduled, nsync >>

\* The call left _run_coro_sync with an exception.
Fails(th, message) ==
    threads' = At(th, [Entering EXCEPT !.pc = "raised", !.failure = message])

\* _run_coro_sync: the second self._get_event_loop() (self._event_loop is set
\* by now: it is read and returned) and the call made on the loop it returns.
Submit(th) ==
    LET target == _event_loop
    IN  /\ th \in DOMAIN threads
        /\ threads[th].pc = "submit"
        /\ UNCHANGED << backend, _event_loop, on_loop, nsync >>
        /\ IF threads[th].running
           THEN \* asyncio.run_coroutine_threadsafe(coro, loop); future.result()
                /\ threads' = [threads EXCEPT ![th].on = target,
                                              ![th].pc = "result"]
                /\ scheduled' = scheduled \cup {target}
                /\ UNCHANGED loops
           ELSE \* loop.run_until_complete(coro)
                IF is_running(target)
                THEN /\ Fails(th, "This event loop is already running")
                     /\ UNCHANGED << loops, scheduled >>
                ELSE IF th \in on_loop
                THEN /\ Fails(th, "Cannot run the event loop while another loop is running")
                     /\ UNCHANGED << loops, scheduled >>
                ELSE /\ loops' = [loops EXCEPT ![target] = th]
                     /\ threads' = [threads EXCEPT ![th].on = target,
                                                   ![th].pc = "run_until_complete"]
                     /\ scheduled' = scheduled \cup {target}

\* The loop runs the coroutine of thread th to its end: run_until_complete
\* stops the loop and returns, or future.result() returns.
CoroutineDone(th) ==
    /\ th \in DOMAIN threads
    /\ threads[th].pc \in {"run_until_complete", "result"}
    /\ Driven(threads[th].on)
    /\ loops' = IF threads[th].pc = "run_until_complete"
                THEN [loops EXCEPT ![threads[th].on] = 0]
                ELSE loops
    /\ threads' = Left(th)
    /\ UNCHANGED << backend, _event_loop, on_loop, scheduled, nsync >>

InitSync ==
    /\ hints_signature = "a{sv}"
    /\ has_on_notification_closed = TRUE
    /\ cps = {"actions", "body"}
    /\ InitBackend
    /\ InitBridge
    \* Each thread is an ordinary thread, or is running an asyncio loop and
    \* calls from a coroutine or callback of that loop.
    /\ on_loop \in SUBSET Threads

NextSync ==
    \/ \E th \in Threads : SyncCall(th)
    \/ \E th \in Threads : GetEventLoopTest(th)
    \/ \E th \in Threads : GetEventLoopBind(th)
    \/ \E th \in Threads : GetEventLoopReturn(th)
    \/ \E th \in Threads : IsRunning(th)
    \/ \E th \in Threads : Submit(th)
    \/ \E th \in Threads : CoroutineDone(th)

SpecSync == InitSync /\ [][NextSync]_vars

(* ------------------------------ SpecCaps ------------------------------ *)

\* Any server: every reply to GetCapabilities, with or without the
\* NotificationClosed signal, every hints signature.
InitCaps ==
    /\ hints_signature \in HintsSignatures
    /\ has_on_notification_closed \in BOOLEAN
    /\ cps \in SUBSET ServerCapabilities
    /\ InitBackend
    /\ InitBridge
    /\ on_loop = { }

NextCaps ==
    \/ GetCapabilitiesCall
    \/ \E t \in Suspended : Connect(t)
    \/ \E t \in Suspended : Introspect(t)
    \/ \E t \in Suspended : GetCapabilitiesReturn(t)

SpecCaps == InitCaps /\ [][NextCaps]_vars

(* =============================== claims =============================== *)

\* The notification tracked under a native handle: the handle is in the
\* bidict and its identifier is in the cache.
Tracked(nid) ==
    /\ nid \in DOMAIN platform_nid_to_identifier
    /\ platform_nid_to_identifier[nid] \in DOMAIN notification_cache

TrackedNotification(nid) == notification_cache[platform_nid_to_identifier[nid]]

Resolved(nid) ==
    /\ nid \notin DOMAIN platform_nid_to_identifier'
    /\ platform_nid_to_identifier[nid] \notin DOMAIN notification_cache'

BothHandlers == { n \in Notifications : n.on_clicked /\ n.on_dismissed }

(* ---------------------------------- C1 -------------------------------- *)

C1_AtMostOnePerSend ==
    \A id \in Identifiers : Len(fired[id]) <= nregistered[id]

C1_ActionResolves ==
    \A nid \in SignalNids :
        (/\ Tracked(nid)
         /\ TrackedNotification(nid) \in BothHandlers
         /\ on_action(nid, "default"))
        => LET id == platform_nid_to_identifier[nid]
           IN  /\ fired'[id] = Append(fired[id], "on_clicked")
               /\ Resolved(nid)

\* C1: over any sequence of action / closed signals no notification has more
\* callbacks invoked than sends that registered it; and an "action invoked"
\* signal with key "default" for a tracked notification that has on_clicked
\* and on_dismissed invokes on_clicked and resolves the notification, so that
\* a "closed" signal that follows for the same handle invokes nothing.
C1_AtMostOnceHandler ==
    /\ [] C1_AtMostOnePerSend
    /\ [][C1_ActionResolves]_vars

\* C1 witness: "a" (both handlers) was sent once under handle 1, the action
\* signal invoked on_clicked, and the closed signal for handle 1 that
\* followed was ignored.
C1_Witness ==
    /\ outcome = << "_on_closed", "ignored" >>
    /\ next_nid = 2
    /\ nregistered["a"] = 1
    /\ fired["a"] = << "on_clicked" >>
    /\ fired[""] = << >>

(* ---------------------------------- C2 -------------------------------- *)

\* C2: however many operations race on "connection not yet established",
\* exactly one platform connection is established: _init_dbus connects once
\* and registers the signal handlers once.
C2_SingleConnection ==
    /\ bus_count <= 1
    /\ handler_regs <= 1

(* ---------------------------------- C3 -------------------------------- *)

Injective(m) == \A j, k \in DOMAIN m : m[j] = m[k] => j = k

\* C3: in every reachable state the identifiers of the handle map are exactly
\* the identifiers of the cached notifications, and the map is one-to-one
\* (its two directions are inverses of each other).
C3_MapMatchesCache ==
    /\ Range(platform_nid_to_identifier) = DOMAIN notification_cache
    /\ Injective(platform_nid_to_identifier)

(* ---------------------------------- C4 -------------------------------- *)

NothingHappens ==
    /\ outcome' \in { << >>, << "_on_action", "ignored" >>,
                      << "_on_closed", "ignored" >> }
    /\ UNCHANGED << fired, platform_nid_to_identifier, notification_cache >>

\* C4: a "closed" or "action invoked" signal whose handle is not in the handle
\* map raises nothing, invokes no callback and leaves the handle map and the
\* cache as they are, whatever the cache holds.
C4_UnknownSignalIgnored ==
    [][\A nid \in SignalNids :
          nid \notin DOMAIN platform_nid_to_identifier
          => /\ \A key \in ActionKeys : on_action(nid, key) => NothingHappens
             /\ \A reason \in CloseReasons :
                    on_closed(nid, reason) => NothingHappens]_vars

(* ---------------------------------- C5 -------------------------------- *)

\* The key is not the body click of a notification with on_clicked, and is
\* the identifier of none of its buttons.
UnknownKey(notification, key) ==
    /\ ~(key = "default" /\ notification.on_clicked)
    /\ MatchingButtons(notification, key) = {}

\* C5: an "action invoked" signal for a tracked notification with a key that
\* matches neither on_clicked nor a button is ignored: _on_action raises
\* nothing and no callback is invoked.
C5_UnknownKeyIgnored ==
    [][\A nid \in SignalNids, key \in ActionKeys :
          (/\ Tracked(nid)
           /\ UnknownKey(TrackedNotification(nid), key)
           /\ on_action(nid, key))
          => /\ outcome' = << >>
             /\ fired' = fired]_vars

(* ---------------------------------- C6 -------------------------------- *)

\* C6: with the connection established, clear of an identifier that has no
\* entry in the handle map raises nothing, issues no close request and leaves
\* the handle map as it is.
C6_ClearUntrackedIsNoop ==
    [][\A id \in Identifiers :
          (/\ interface # "None"
           /\ id \notin Range(platform_nid_to_identifier)
           /\ ClearCall(id))
          => /\ outcome' = << >>
             /\ tasks' = tasks
             /\ platform_nid_to_identifier' = platform_nid_to_identifier]_vars

(* ---------------------------------- C7 -------------------------------- *)

\* C7: a "closed" signal for a tracked notification invokes on_dismissed
\* exactly when the reason is "dismissed by user" and on_dismissed is set; for
\* "expired" and "closed programmatically" nothing is invoked; in every case
\* the notification leaves the handle map and the cache.
C7_ClosedRouting ==
    [][\A nid \in SignalNids, reason \in CloseReasons :
          (Tracked(nid) /\ on_closed(nid, reason))
          => LET id == platform_nid_to_identifier[nid]
                 n  == TrackedNotification(nid)
             IN  /\ Resolved(nid)
                 /\ outcome' = << >>
                 /\ \A other \in Identifiers \ {id} : fired'[other] = fired[other]
                 /\ (reason = NOTIFICATION_CLOSED_DISMISSED /\ n.on_dismissed)
                    => fired'[id] = Append(fired[id], "on_dismissed")
                 /\ (reason # NOTIFICATION_CLOSED_DISMISSED \/ ~n.on_dismissed)
                    => fired'[id] = fired[id]
                 /\ reason \in { NOTIFICATION_CLOSED_EXPIRED,
                                 NOTIFICATION_CLOSED_PROGRAMMATICALLY }
                    => fired' = fired]_vars

\* C7 witness: "a" was sent once and a closed signal invoked its
\* on_dismissed and resolved it.
C7_Witness ==
    /\ fired["a"] = << "on_dismissed" >>
    /\ nregistered["a"] = 1
    /\ "a" \notin DOMAIN notification_cache
    /\ "a" \notin Range(platform_nid_to_identifier)

(* ---------------------------------- C8 -------------------------------- *)

\* The effect of pressing the button `key` of the notification tracked under
\* nid: its on_pressed (if set) is the one callback invoked, and the
\* notification is resolved.
ButtonPressed(nid, key) ==
    LET id == platform_nid_to_identifier[nid]
        n  == TrackedNotification(nid)
        b  == n.buttons[CHOOSE i \in MatchingButtons(n, key) : TRUE]
    IN  /\ Resolved(nid)
        /\ outcome' = << >>
        /\ fired' = [fired EXCEPT ![id] =
                        IF b.on_pressed THEN Append(@, Pressed(b)) ELSE @]

\* C8 as stated: for a tracked notification, an "action invoked" signal whose
\* key is the identifier of one of its buttons invokes that button's
\* on_pressed (if set) and no other callback, and resolves the notification.
C8_ButtonRoutingAnyKey ==
    [][\A nid \in SignalNids, key \in ActionKeys :
          (/\ Tracked(nid)
           /\ MatchingButtons(TrackedNotification(nid), key) # {}
           /\ on_action(nid, key))
          => ButtonPressed(nid, key)]_vars

\* C8 amended: the same, for every key but "default" on a notification that
\* has on_clicked set (that key is the body click and invokes on_clicked).
C8_ButtonRouting ==
    [][\A nid \in SignalNids, key \in ActionKeys :
          (/\ Tracked(nid)
           /\ MatchingButtons(TrackedNotification(nid), key) # {}
           /\ ~(key = "default" /\ TrackedNotification(nid).on_clicked)
           /\ on_action(nid, key))
          => ButtonPressed(nid, key)]_vars

\* C8 witness: "b" (buttons A and B) was sent once, and the action signal with
\* key "B" invoked the on_pressed of B alone and resolved it.
C8_Witness ==
    /\ fired["b"] = << "on_pressed:B" >>
    /\ nregistered["b"] = 1
    /\ "b" \notin DOMAIN notification_cache
    /\ "b" \notin Range(platform_nid_to_identifier)

(* ---------------------------------- C9 -------------------------------- *)

\* C9: a send of a notification whose identifier is already in the handle map
\* under another handle succeeds, and afterwards the new handle alone maps to
\* the identifier.
C9_ResendReplaces ==
    [][\A t \in Suspended :
          (/\ t.pc = "notify"
           /\ t.arg \in Range(platform_nid_to_identifier)
           /\ NotifyReturn(t))
          => /\ outcome' = << >>
             /\ { k \in DOMAIN platform_nid_to_identifier' :
                    platform_nid_to_identifier'[k] = t.arg } = { next_nid }]_vars

(* ---------------------------------- C10 ------------------------------- *)

\* A send left its coroutine with a platform failure or a cancellation.
SendFailed ==
    /\ outcome' \in { << "_send", e >> : e \in AwaitErrors }
    /\ \E t \in Suspended : t.op = "_send" /\ tasks' = Without(t)

C11_ClearAllClosesEach ==
    [][(/\ interface # "None"
        /\ DOMAIN platform_nid_to_identifier # { }
        /\ ClearAllCall)
       => LET item == BidictPopitem(platform_nid_to_identifier)
          IN  /\ outcome' = << >>
              /\ item[1] \notin DOMAIN platform_nid_to_identifier'
              /\ tasks' = With(tasks, Task("_clear_all", "", "close",
                                           item[1]))]_vars

(* ---------------------------------- C12 ------------------------------- *)

\* C12: every operation of one DesktopNotifierSync instance is scheduled on
\* the same loop, and once _event_loop is set it keeps its value.
C12_LoopBoundOnce ==
    /\ [] (Cardinality(scheduled) <= 1)
    /\ [][_event_loop # None => _event_loop' = _event_loop]_vars

(* ---------------------------------- C13 ------------------------------- *)

\* C13: a caller that is blocked in future.result() has handed its operation
\* to a loop that another execution path runs, so that the result can arrive:
\* it is never blocked on the loop it is itself executing on.
C13_BlockedCallerIsServed ==
    \A th \in DOMAIN threads :
        threads[th].pc = "result" => threads[th].on # RunningLoop(th)

(* ---------------------------------- C14 ------------------------------- *)

\* C14: when ordinary threads call concurrently and one loop was made and
\* bound, no call ends with run_until_complete refusing the loop because
\* another thread is already running it.
C14_NoSecondDriver ==
    (on_loop = { } /\ Len(loops) <= 1)
    => \A th \in DOMAIN threads :
          threads[th].failure # "This event loop is already running"

(* ---------------------------------- C15 ------------------------------- *)

\* C15: with n1 alone tracked, the send of another notification n2 that is to
\* replace it (whichever the replace target, _send is given n2 alone) leaves
\* one entry in the handle map and the cache, under n1's handle and n2's
\* identifier.
C15_ReplaceInPlace ==
    [][\A t \in Suspended :
          (/\ t.pc = "notify"
           /\ Cardinality(DOMAIN platform_nid_to_identifier) = 1
           /\ t.arg \notin Range(platform_nid_to_identifier)
           /\ DOMAIN notification_cache = Range(platform_nid_to_identifier)
           /\ NotifyReturn(t))
          => /\ DOMAIN platform_nid_to_identifier' =
                    DOMAIN platform_nid_to_identifier
             /\ Range(platform_nid_to_identifier') = { t.arg }
             /\ DOMAIN notification_cache' = { t.arg }]_vars

(* ---------------------------------- C16 ------------------------------- *)

\* C16: on a server that shows notifications, the handle map and the cache
\* never hold more than notification_limit notifications (so that the send
\* after the limit is reached has evicted the oldest).
C16_WithinLimit ==
    hints_signature # ""
    => /\ Cardinality(DOMAIN platform_nid_to_identifier) <= notification_limit
       /\ Cardinality(DOMAIN notification_cache) <= notification_limit

(* ---------------------------------- C17 ------------------------------- *)

\* C17: while clear(n) is suspended on its close request, an action or closed
\* signal for the native handle n had invokes no handler of n.
C17_NoHandlerOnceCleared ==
    [][\A t \in Suspended :
          (/\ t.op = "_clear"
           /\ \/ \E key \in ActionKeys : on_action(t.nid, key)
              \/ \E reason \in CloseReasons : on_closed(t.nid, reason))
          => fired'[t.arg] = fired[t.arg]]_vars

(* ---------------------------------- C18 ------------------------------- *)

\* C18: clear_all goes through the notifications tracked when it was called:
\* after its first step each of them is out of the handle map, or clear_all is
\* still at work (suspended on a close request).
C18_SnapshotTraversed ==
    [][(interface # "None" /\ ClearAllCall)
       => \A nid \in DOMAIN platform_nid_to_identifier :
             \/ nid \notin DOMAIN platform_nid_to_identifier'
             \/ \E t \in BagToSet(tasks') : t.op = "_clear_all"]_vars

(* ---------------------------------- C19 ------------------------------- *)

\* C19: with the connection established, a send to a server whose Notify has
\* no hints argument returns at once, with no platform call and the handle
\* map as it was; to any other server it issues one Notify call, and when
\* that call returns a handle the send raises nothing and the handle map has
\* gained the one entry handle -> identifier.
C19_RegistersIffNotified ==
    [][/\ \A n \in Notifications :
              (interface # "None" /\ SendCall(n))
              => IF hints_signature = ""
                 THEN /\ tasks' = tasks
                      /\ outcome' = << >>
                      /\ platform_nid_to_identifier' =
                             platform_nid_to_identifier
                 ELSE /\ tasks' = With(tasks, Task("_send", n.identifier,
                                                   "notify", 0))
                      /\ platform_nid_to_identifier' =
                             platform_nid_to_identifier
       /\ \A t \in Suspended :
              (t.pc = "notify" /\ NotifyReturn(t))
              => /\ outcome' = << >>
                 /\ platform_nid_to_identifier' =
                        BidictPut(platform_nid_to_identifier, next_nid, t.arg)
                 /\ Cardinality(DOMAIN platform_nid_to_identifier') =
                        Cardinality(DOMAIN platform_nid_to_identifier) + 1]_vars

(* ---------------------------------- C20 ------------------------------- *)

\* C20: the set get_capabilities returns always has APP_NAME, ICON, TITLE and
\* TIMEOUT; has ON_CLICKED and ON_DISMISSED exactly when the interface has the
\* closed signal; BUTTONS exactly when the server lists "actions", MESSAGE
\* exactly when it lists "body"; URGENCY exactly when the hints signature is
\* a{sv} or a{ss}; SOUND and SOUND_NAME exactly when the server lists "sound"
\* and the hints signature is a{sv} or a{ss}.
C20_Capabilities ==
    \A c \in returned :
        LET hints_ok == hints_signature = "a{sv}" \/ hints_signature = "a{ss}"
        IN  /\ {"APP_NAME", "ICON", "TITLE", "TIMEOUT"} \subseteq c
            /\ "ON_CLICKED" \in c <=> has_on_notification_closed
            /\ "ON_DISMISSED" \in c <=> has_on_notification_closed
            /\ "BUTTONS" \in c <=> "actions" \in cps
            /\ "MESSAGE" \in c <=> "body" \in cps
            /\ "URGENCY" \in c <=> hints_ok
            /\ "SOUND" \in c <=> ("sound" \in cps /\ hints_ok)
            /\ "SOUND_NAME" \in c <=> ("sound" \in cps /\ hints_ok)

\* C20 witness: get_capabilities returned for a server that lists "sound" and
\* "actions", has the closed signal and declares the unexpected signature
\* a{si}: BUTTONS is in the set, URGENCY and SOUND are not.
C20_Witness ==
    /\ hints_signature = "a{si}"
    /\ cps = {"sound", "actions"}
    /\ has_on_notification_closed
    /\ returned = { {"APP_NAME", "ICON", "TITLE", "TIMEOUT", "ON_CLICKED",
                     "ON_DISMISSED", "BUTTONS"} }

====
